---- MODULE Spec2Model ----
(***************************************************************************)
(* Investigation orchestration of the DLQ monitor.                         *)
(*                                                                         *)
(* Spec    : DLQMonitor (core/monitor.py): the poll loop's alert handler,  *)
(*           the cooldown / already-running gate and the investigation     *)
(*           threads that supervise the external agent process.            *)
(* FairSpec: the same, with weak fairness on the investigation threads.    *)
(***************************************************************************)
EXTENDS Integers, Sequences, FiniteSets, TLC

VARIABLES
    now,                      \* wall clock, in seconds (datetime.now())
    last_alerts,              \* DLQMonitor.last_alerts
    auto_investigations,      \* DLQMonitor.auto_investigations
    investigation_processes,  \* DLQMonitor.investigation_processes
    thr,                      \* the run_investigation threads
    nthreads,                 \* number of threads started so far
    mainPc, mainQ,            \* position of the poll loop inside _should_auto_investigate
    last_start,               \* history: when the gate last approved a start, per queue
    decision,                 \* last logged decision of the gate: <<queue, outcome>>
    investigations,           \* rows of the investigations table, in insertion order
    timeline,                 \* rows of the investigation_timeline table
    active_investigations,    \* InvestigationService.active_investigations (its keys)
    agent_status,             \* agents.status of the 'investigator' agent
    sims,                     \* the dashboard's simulate_investigation threads
    nsims,                    \* number of simulate_investigation threads started
    ncalls,                   \* number of service calls made by other clients
    cycle_log,                \* whether a CoordinatorAgent cycle has logged an error
    driver,                   \* which loop drives check_dlq_messages
    pollPc,                   \* position of that loop
    cycle,                    \* queues still to be checked in the current pass
    pending_alerts,           \* the alerts list built by the current pass
    emitted,                  \* history: last call of send_critical_alert, per queue
    nticks,                   \* number of clock steps taken by the poll model
    writer,                   \* a caller of the service between its two commits
    snapshot,                 \* what get_investigation_details returned last
    roundtrip                 \* one investigation written in full, and its reload

monVars == <<last_alerts, auto_investigations, investigation_processes,
             thr, nthreads, mainPc, mainQ, last_start, decision>>

dbVars == <<investigations, timeline, active_investigations, agent_status,
            sims, nsims, ncalls, cycle_log>>

pollVars == <<driver, pollPc, cycle, pending_alerts, emitted, nticks>>

readVars == <<writer, snapshot, roundtrip>>

vars == <<now, monVars, dbVars, pollVars, readVars>>

\* ---------------------------------------------------------------- bounds
MaxTime   == 3600
MaxLaunch == 2
TickSteps == {1800}
MaxDbTime == 6      \* the clock of the persistence model stops here
MaxInv    == 2      \* rows in the investigations table
MaxEvents == 7      \* rows in the investigation_timeline table
MaxSims   == 1      \* simulate_investigation threads
MaxCalls  == 1      \* service calls made by other clients
MaxTicks  == 3      \* clock steps of the poll model

\* ------------------------------------------------------ program constants
investigation_cooldown == 3600
claude_command_timeout == 1800
ReAlertSeconds         == 300
SecondsPerDay          == 86400
INVESTIGATION_THRESHOLD == 10
IdNameLen              == 20
PendingCounts          == {0, 10}

Queues                == {"crit", "other"}
auto_investigate_dlqs == {"crit"}

NoTime == -1      \* key absent from a Dict[str, datetime]
NoProc == 0       \* key absent from investigation_processes
NoQueue == "-"

NotifyResults == {"ok", "failed", "raised"}
Tids == 1..MaxLaunch

\* ------------------------------------------------------------- helpers
\* timedelta.seconds: the seconds component of a non-negative timedelta
TimedeltaSeconds(d) == d % SecondsPerDay

\* _handle_alert: should_notify
ShouldNotify(q) ==
    \/ last_alerts[q] = NoTime
    \/ TimedeltaSeconds(now - last_alerts[q]) > ReAlertSeconds

\* _should_auto_investigate: the cooldown check
InCooldown(q) ==
    /\ auto_investigations[q] # NoTime
    /\ now - auto_investigations[q] < investigation_cooldown

\* Popen.poll() is None
ProcRunning(t) == thr[t].proc = "alive"

UnbornThread ==
    [queue |-> NoQueue, pc |-> "unborn", proc |-> "none", returncode |-> -1,
     spawnedAt |-> NoTime, exc |-> FALSE, notifyExc |-> FALSE,
     reported |-> <<>>]

\* a thread that has returned: its locals are gone
DoneThread(q) == [UnbornThread EXCEPT !.queue = q, !.pc = "done"]

\* variant: the caller runs the investigation up to communicate() itself
StartThread_Inline(q) ==
    /\ nthreads < MaxLaunch
    /\ nthreads' = nthreads + 1
    /\ thr' = [thr EXCEPT ![nthreads + 1] =
                  [UnbornThread EXCEPT !.queue = q, !.pc = "store",
                                       !.proc = "alive", !.spawnedAt = now]]
    /\ last_start' = [last_start EXCEPT ![q] = now]

\* _execute_claude_investigation: threading.Thread(target=run_investigation).start()
StartThread(q) ==
    /\ nthreads < MaxLaunch
    /\ nthreads' = nthreads + 1
    /\ thr' = [thr EXCEPT ![nthreads + 1] =
                  [UnbornThread EXCEPT !.queue = q, !.pc = "start"]]
    /\ last_start' = [last_start EXCEPT ![q] = now]

\* _should_auto_investigate from the cooldown check on, and the caller's branch
GateCooldown(q) ==
    IF InCooldown(q)
    THEN /\ decision' = <<q, "cooldown">>
         /\ UNCHANGED <<thr, nthreads, last_start>>
    ELSE /\ decision' = <<q, "approved">>
         /\ StartThread(q)

\* ------------------------------------------- persistence: data and helpers
\* queue names, as the characters the id is cut from
QueueName(q) ==
    IF q = "crit"
    THEN <<"f", "m", "-", "d", "i", "g", "i", "t", "a", "l", "g", "u", "r", "u", "-", "a", "p", "i", "-", "u", "p", "d", "a", "t", "e", "-", "d", "l", "q", "-", "p", "r", "o", "d">>
    ELSE <<"f", "m", "-", "p", "a", "y", "m", "e", "n", "t", "s", "-", "d", "l", "q">>

Min(a, b) == IF a <= b THEN a ELSE b

\* create_investigation: f"inv_{now:%Y%m%d_%H%M%S}_{dlq_name[:20]}"
MakeInvestigationId(t, q) ==
    <<t, SubSeq(QueueName(q), 1, Min(IdNameLen, Len(QueueName(q))))>>

Statuses == {"initiated", "analyzing", "debugging", "reviewing",
             "awaiting_review", "completed", "failed", "timeout"}
TerminalStatuses == {"completed", "failed", "timeout"}

NoSim == [pc |-> "unborn", queue |-> NoQueue, messages |-> 0, inv |-> <<>>,
          wake |-> 0]

InvestigationIds == {investigations[i].investigation_id : i \in DOMAIN investigations}

\* session.query(Investigation).filter_by(investigation_id=...).first()
RowOf(invs, id) ==
    IF \E i \in DOMAIN invs : invs[i].investigation_id = id
    THEN CHOOSE i \in DOMAIN invs : invs[i].investigation_id = id
    ELSE 0

\* the row written by create_investigation (column defaults included)
NewInvestigation(id, q, cnt, t) ==
    [investigation_id |-> id, dlq_name |-> q, message_count |-> cnt,
     status |-> "initiated", progress |-> 0, started_at |-> t,
     completed_at |-> NoTime, duration_seconds |-> NoTime]

\* DatabaseService.update_investigation(investigation_id, **kwargs) at time t
UpdateInvestigation(invs, id, kwargs, t) ==
    LET i == RowOf(invs, id) IN
    IF i = 0 THEN invs
    ELSE LET old == invs[i]
             set == [f \in DOMAIN old |->
                        IF f \in DOMAIN kwargs THEN kwargs[f] ELSE old[f]]
             stamped ==
                 IF "status" \in DOMAIN kwargs /\ kwargs["status"] = "completed"
                    /\ set.started_at # NoTime
                 THEN [set EXCEPT !.completed_at = t,
                                  !.duration_seconds = t - set.started_at]
                 ELSE set
         IN [invs EXCEPT ![i] = stamped]

\* DatabaseService.add_timeline_event(investigation_id, event_type, ...) at
\* time t, looking the investigation up among the committed rows invs
AddTimelineEvent(tl, invs, id, event_type, t) ==
    LET i == RowOf(invs, id) IN
    IF i = 0 THEN tl
    ELSE Append(tl, [investigation_id |-> i, event_type |-> event_type,
                     timestamp |-> t])

\* get_investigation_details: the timeline events of row i, ordered by timestamp
EventsOf(tl, i) ==
    LET OfRow(e) == e.investigation_id = i IN SelectSeq(tl, OfRow)

\* no service call under way
NoWriter == [pc |-> "new", inv |-> <<>>, event_type |-> "-", n |-> 0]

\* get_investigation_details has not been called
NoSnapshot == [status |-> "-", progress |-> 0, events |-> <<>>]

\* get_investigation_details returned None / was not called
NoDetails == [id |-> <<>>]

\* nothing written yet
NoRoundTrip == [rows |-> <<>>, events |-> <<>>, details |-> NoDetails]

\* no call of send_critical_alert yet; flip changes with every call
NoEmission == [at |-> NoTime, flip |-> FALSE]

\* ---------------------------------------------------------------- Init
Init ==
    /\ now = 0
    /\ last_alerts = [q \in Queues |-> NoTime]
    /\ auto_investigations = [q \in Queues |-> NoTime]
    /\ investigation_processes = [q \in Queues |-> NoProc]
    /\ thr = [t \in Tids |-> UnbornThread]
    /\ nthreads = 0
    /\ mainPc = "idle"
    /\ mainQ = NoQueue
    /\ last_start = [q \in Queues |-> NoTime]
    /\ decision = <<NoQueue, "none">>
    /\ investigations = <<>>
    /\ timeline = <<>>
    /\ active_investigations = {}
    /\ agent_status = "idle"
    /\ sims = [s \in 1..MaxSims |-> NoSim]
    /\ nsims = 0
    /\ ncalls = 0
    /\ cycle_log = FALSE
    /\ driver = "unset"
    /\ pollPc = "sleep"
    /\ cycle = <<>>
    /\ pending_alerts = <<>>
    /\ emitted = [q \in Queues |-> NoEmission]
    /\ nticks = 0
    /\ writer = NoWriter
    /\ snapshot = NoSnapshot
    /\ roundtrip = NoRoundTrip

\* ------------------------------------------------------------ the clock
Tick ==
    \E d \in TickSteps :
        /\ now + d <= MaxTime
        /\ now' = now + d
        /\ UNCHANGED <<monVars, dbVars, pollVars, readVars>>

\* --------------------------------------------------------- the poll loop
\* variant: the gate does not look at auto_investigate_dlqs
HandleAlert_AnyQueue ==
    \E q \in Queues, cnt \in PendingCounts, r \in NotifyResults :
        /\ cnt > 0
        /\ mainPc = "idle"
        /\ UNCHANGED <<dbVars, pollVars, readVars>>
        /\ ShouldNotify(q)
        /\ UNCHANGED <<now, auto_investigations, investigation_processes>>
        /\ IF r = "raised"
           THEN UNCHANGED <<last_alerts, thr, nthreads, mainPc, mainQ,
                            last_start, decision>>
           ELSE /\ last_alerts' = [last_alerts EXCEPT ![q] = now]
                /\ IF investigation_processes[q] # NoProc
                   THEN /\ mainPc' = "poll"
                        /\ mainQ' = q
                        /\ UNCHANGED <<thr, nthreads, last_start, decision>>
                   ELSE /\ GateCooldown(q)
                        /\ UNCHANGED <<mainPc, mainQ>>

\* check_dlq_messages for one queue with message_count > 0: _handle_alert up to
\* the membership test of _should_auto_investigate
HandleAlert ==
    \E q \in Queues, cnt \in PendingCounts, r \in NotifyResults :
        /\ cnt > 0
        /\ mainPc = "idle"
        /\ UNCHANGED <<dbVars, pollVars, readVars>>
        /\ ShouldNotify(q)
        /\ UNCHANGED <<now, auto_investigations, investigation_processes>>
        /\ IF r = "raised"
           THEN \* send_critical_alert raised: the handler is left before line 637
                UNCHANGED <<last_alerts, thr, nthreads, mainPc, mainQ,
                            last_start, decision>>
           ELSE /\ last_alerts' = [last_alerts EXCEPT ![q] = now]
                /\ IF q \notin auto_investigate_dlqs
                   THEN /\ decision' = <<q, "not_critical">>
                        /\ UNCHANGED <<thr, nthreads, mainPc, mainQ, last_start>>
                   ELSE IF investigation_processes[q] # NoProc
                   THEN /\ mainPc' = "poll"
                        /\ mainQ' = q
                        /\ UNCHANGED <<thr, nthreads, last_start, decision>>
                   ELSE /\ GateCooldown(q)
                        /\ UNCHANGED <<mainPc, mainQ>>

\* _should_auto_investigate: proc = self.investigation_processes[queue_name]; proc.poll()
GatePoll ==
    /\ mainPc = "poll"
    /\ UNCHANGED <<dbVars, pollVars, readVars>>
    /\ UNCHANGED <<now, last_alerts, auto_investigations, investigation_processes,
                   thr, nthreads, last_start>>
    /\ IF investigation_processes[mainQ] = NoProc
       THEN \* KeyError: the thread removed the entry in between
            /\ decision' = <<mainQ, "gate_error">>
            /\ mainPc' = "idle" /\ mainQ' = NoQueue
       ELSE IF ProcRunning(investigation_processes[mainQ])
       THEN /\ decision' = <<mainQ, "already_running">>
            /\ mainPc' = "idle" /\ mainQ' = NoQueue
       ELSE /\ mainPc' = "del"
            /\ UNCHANGED <<mainQ, decision>>

\* _should_auto_investigate: del self.investigation_processes[queue_name], then
\* the cooldown check
GateDel ==
    /\ mainPc = "del"
    /\ UNCHANGED <<dbVars, pollVars, readVars>>
    /\ mainPc' = "idle" /\ mainQ' = NoQueue
    /\ UNCHANGED <<now, last_alerts, auto_investigations>>
    /\ IF investigation_processes[mainQ] = NoProc
       THEN \* KeyError
            /\ decision' = <<mainQ, "gate_error">>
            /\ UNCHANGED <<investigation_processes, thr, nthreads, last_start>>
       ELSE /\ investigation_processes' =
                   [investigation_processes EXCEPT ![mainQ] = NoProc]
            /\ GateCooldown(mainQ)

\* ------------------------------------------- the investigation threads
\* (run_investigation, one thread per approval)
MainUnchanged ==
    UNCHANGED <<now, last_alerts, nthreads, mainPc, mainQ, last_start, decision,
                dbVars, pollVars, readVars>>

\* where the thread goes after the inner finally
AfterInnerFinally(exc) == IF exc THEN "except" ELSE "fin_outer"

\* notifier.send_notification("AUTO-INVESTIGATION STARTED"), then
\* process = subprocess.Popen(cmd, ...); either may raise
ThreadPopen(t) ==
    \E r \in NotifyResults, ok \in BOOLEAN :
        /\ thr[t].pc = "start"
        /\ thr' = IF r # "raised" /\ ok
                  THEN [thr EXCEPT ![t].pc = "store", ![t].proc = "alive",
                                   ![t].spawnedAt = now]
                  ELSE [thr EXCEPT ![t].pc = "except",
                                   ![t].notifyExc = (r = "raised")]
        /\ UNCHANGED <<auto_investigations, investigation_processes>>
        /\ MainUnchanged

\* self.investigation_processes[queue_name] = process
ThreadStore(t) ==
    /\ thr[t].pc = "store"
    /\ investigation_processes' =
           [investigation_processes EXCEPT ![thr[t].queue] = t]
    /\ thr' = [thr EXCEPT ![t].pc = "wait"]
    /\ UNCHANGED auto_investigations
    /\ MainUnchanged

\* variant: the exit code is not looked at
Classify_IgnoreCode(code) == "completed"

\* the outcome reported for an exit code
Classify(code) == IF code = 0 THEN "completed" ELSE "failed"

\* process.communicate(timeout=...) returns: the branch on process.returncode
\* with its log line and notification
ThreadCommunicateExit(t) ==
    \E code \in {0, 1}, r \in NotifyResults :
        /\ thr[t].pc = "wait"
        /\ now - thr[t].spawnedAt < claude_command_timeout
        /\ thr' = [thr EXCEPT ![t].pc = "fin_check", ![t].proc = "exited",
                              ![t].returncode = code, ![t].spawnedAt = NoTime,
                              ![t].reported = Append(@, Classify(code)),
                              ![t].exc = (r = "raised"),
                              ![t].notifyExc = (r = "raised")]
        /\ UNCHANGED <<auto_investigations, investigation_processes>>
        /\ MainUnchanged

\* process.communicate raises TimeoutExpired: process.kill(), log, notification
ThreadCommunicateTimeout(t) ==
    \E r \in NotifyResults :
        /\ thr[t].pc = "wait"
        /\ now - thr[t].spawnedAt >= claude_command_timeout
        /\ thr' = [thr EXCEPT ![t].pc = "fin_check", ![t].proc = "killed",
                              ![t].spawnedAt = NoTime,
                              ![t].reported = Append(@, "timeout"),
                              ![t].exc = (r = "raised"),
                              ![t].notifyExc = (r = "raised")]
        /\ UNCHANGED <<auto_investigations, investigation_processes>>
        /\ MainUnchanged

\* inner finally: if queue_name in self.investigation_processes
ThreadFinCheck(t) ==
    /\ thr[t].pc = "fin_check"
    /\ thr' = [thr EXCEPT ![t].pc =
                  IF investigation_processes[thr[t].queue] # NoProc
                  THEN "fin_del" ELSE AfterInnerFinally(thr[t].exc)]
    /\ UNCHANGED <<auto_investigations, investigation_processes>>
    /\ MainUnchanged

\* variant: the inner finally leaves the entry in place
ThreadFinDel_KeepHandle(t) ==
    /\ thr[t].pc = "fin_del"
    /\ thr' = [thr EXCEPT ![t].pc = AfterInnerFinally(thr[t].exc)]
    /\ UNCHANGED <<auto_investigations, investigation_processes>>
    /\ MainUnchanged

\* inner finally: del self.investigation_processes[queue_name]
ThreadFinDel(t) ==
    /\ thr[t].pc = "fin_del"
    /\ IF investigation_processes[thr[t].queue] # NoProc
       THEN /\ investigation_processes' =
                   [investigation_processes EXCEPT ![thr[t].queue] = NoProc]
            /\ thr' = [thr EXCEPT ![t].pc = AfterInnerFinally(thr[t].exc)]
       ELSE \* KeyError: the poll loop removed the entry in between
            /\ thr' = [thr EXCEPT ![t].pc = "except", ![t].exc = TRUE]
            /\ UNCHANGED investigation_processes
    /\ UNCHANGED auto_investigations
    /\ MainUnchanged

\* the outer finally: self.auto_investigations[queue_name] = datetime.now()
RecordAttempt(t) ==
    auto_investigations' = [auto_investigations EXCEPT ![thr[t].queue] = now]

\* except Exception: log, send the AUTO-INVESTIGATION ERROR notification (which
\* may raise again), then the outer finally
ThreadExcept(t) ==
    \E r \in NotifyResults :   \* a second exception leaves the thread after the finally
        /\ thr[t].pc = "except"
        /\ thr' = [thr EXCEPT ![t] = DoneThread(thr[t].queue)]
        /\ RecordAttempt(t)
        /\ UNCHANGED investigation_processes
        /\ MainUnchanged

\* no exception: straight to the outer finally
ThreadFinOuter(t) ==
    /\ thr[t].pc = "fin_outer"
    /\ thr' = [thr EXCEPT ![t] = DoneThread(thr[t].queue)]
    /\ RecordAttempt(t)
    /\ UNCHANGED investigation_processes
    /\ MainUnchanged

ThreadStep(t) ==
    \/ ThreadPopen(t)
    \/ ThreadStore(t)
    \/ ThreadCommunicateExit(t)
    \/ ThreadCommunicateTimeout(t)
    \/ ThreadFinCheck(t)
    \/ ThreadFinDel(t)
    \/ ThreadExcept(t)
    \/ ThreadFinOuter(t)

Threads == \E t \in Tids : ThreadStep(t)

Next == Tick \/ HandleAlert \/ GatePoll \/ GateDel \/ Threads

Spec == Init /\ [][Next]_vars

\* the threads are scheduled; the poll loop and the clock are left free
FairSpec == Spec /\ \A t \in Tids : WF_vars(ThreadStep(t))

\* ===================================================================
\* Persistence: DatabaseService, InvestigationService, the dashboard's
\* investigate_dlq handler and the CoordinatorAgent cycle
\* ===================================================================
DbUnchanged == UNCHANGED <<now, monVars, pollVars, readVars>>

DbTick ==
    /\ now < MaxDbTime
    /\ now' = now + 1
    /\ UNCHANGED <<monVars, dbVars, pollVars, readVars>>

\* InvestigationService.start_investigation(q, cnt).  create_investigation
\* commits the new row when its session closes, after the nested
\* add_timeline_event('detected') has looked the investigation up in a session
\* of its own; a duplicate investigation_id fails the commit (unique column).
StartInvestigation(q, cnt) ==
    LET id     == MakeInvestigationId(now, q)
        invs1  == Append(investigations, NewInvestigation(id, q, cnt, now))
        tl0    == AddTimelineEvent(timeline, investigations, id, "detected", now)
        tl1    == AddTimelineEvent(tl0, invs1, id, "launched", now)
    IN  /\ id \notin InvestigationIds
        /\ Len(investigations) < MaxInv
        /\ Len(tl1) <= MaxEvents
        /\ investigations' = invs1
        /\ timeline' = tl1
        /\ agent_status' = "running"
        /\ active_investigations' = active_investigations \cup {id}

\* InvestigationService.update_investigation_progress
UpdateInvestigationProgress(id, progress, status, event_type) ==
    /\ investigations' = UpdateInvestigation(investigations, id,
                             [progress |-> progress, status |-> status], now)
    /\ timeline' = IF id \in active_investigations
                   THEN AddTimelineEvent(timeline, investigations', id, event_type, now)
                   ELSE timeline
    /\ Len(timeline') <= MaxEvents
    /\ UNCHANGED <<active_investigations, agent_status>>

\* report_root_cause, propose_fix and create_pr: a fixed status and progress,
\* and an event that is always written
FixedStep(id, progress, status, event_type) ==
    /\ investigations' = UpdateInvestigation(investigations, id,
                             [progress |-> progress, status |-> status], now)
    /\ timeline' = AddTimelineEvent(timeline, investigations', id, event_type, now)
    /\ Len(timeline') <= MaxEvents
    /\ UNCHANGED <<active_investigations, agent_status>>

ReportRootCause(id) == FixedStep(id, 50, "debugging", "found_cause")
ProposeFix(id)      == FixedStep(id, 75, "reviewing", "proposed_fix")
CreatePr(id)        == FixedStep(id, 90, "awaiting_review", "pr_created")

\* InvestigationService.complete_investigation(id, success)
CompleteInvestigation(id, success) ==
    /\ investigations' = UpdateInvestigation(investigations, id,
                             [status |-> IF success THEN "completed" ELSE "failed",
                              progress |-> 100], now)
    /\ IF id \in active_investigations
       THEN /\ agent_status' = "idle"
            /\ timeline' = AddTimelineEvent(timeline, investigations', id,
                                            "completed", now)
            /\ active_investigations' = active_investigations \ {id}
       ELSE UNCHANGED <<agent_status, timeline, active_investigations>>
    /\ Len(timeline') <= MaxEvents

\* dlq['messages'] of the queue picked on the dashboard
DashboardCounts == {10}

\* handle_investigate_dlq: start_investigation, then a thread running
\* simulate_investigation for the same queue
InvestigateDlq ==
    \E q \in Queues, cnt \in DashboardCounts :
        /\ nsims < MaxSims
        /\ StartInvestigation(q, cnt)
        /\ nsims' = nsims + 1
        /\ sims' = [sims EXCEPT ![nsims + 1] =
                       [pc |-> "start", queue |-> q, messages |-> cnt,
                        inv |-> <<>>, wake |-> now]]
        /\ UNCHANGED <<ncalls, cycle_log>>
        /\ DbUnchanged

\* simulate_investigation: its own start_investigation
SimStart(s) ==
    /\ sims[s].pc = "start"
    /\ IF MakeInvestigationId(now, sims[s].queue) \in InvestigationIds
       THEN \* IntegrityError ends the thread
            /\ sims' = [sims EXCEPT ![s].pc = "dead"]
            /\ UNCHANGED <<investigations, timeline, active_investigations,
                           agent_status>>
       ELSE /\ StartInvestigation(sims[s].queue, sims[s].messages)
            /\ sims' = [sims EXCEPT ![s].pc = "analyzing",
                                    ![s].inv = MakeInvestigationId(now, sims[s].queue),
                                    ![s].wake = now + 1]
    /\ UNCHANGED <<nsims, ncalls, cycle_log>>
    /\ DbUnchanged

\* simulate_investigation: one call after each time.sleep(1)
SimAdvance(s) ==
    /\ sims[s].pc \in {"analyzing", "root_cause", "propose_fix", "create_pr", "complete"}
    /\ now >= sims[s].wake
    /\ CASE sims[s].pc = "analyzing" ->
                /\ UpdateInvestigationProgress(sims[s].inv, 25, "analyzing", "analyzing")
                /\ sims' = [sims EXCEPT ![s].pc = "root_cause", ![s].wake = now + 1]
         [] sims[s].pc = "root_cause" ->
                /\ ReportRootCause(sims[s].inv)
                /\ sims' = [sims EXCEPT ![s].pc = "propose_fix", ![s].wake = now + 1]
         [] sims[s].pc = "propose_fix" ->
                /\ ProposeFix(sims[s].inv)
                /\ sims' = [sims EXCEPT ![s].pc = "create_pr", ![s].wake = now + 1]
         [] sims[s].pc = "create_pr" ->
                /\ CreatePr(sims[s].inv)
                /\ sims' = [sims EXCEPT ![s].pc = "complete", ![s].wake = now + 1]
         [] sims[s].pc = "complete" ->
                /\ CompleteInvestigation(sims[s].inv, TRUE)
                /\ sims' = [sims EXCEPT ![s].pc = "done"]
    /\ UNCHANGED <<nsims, ncalls, cycle_log>>
    /\ DbUnchanged

Sims == \E s \in 1..MaxSims : SimStart(s) \/ SimAdvance(s)

\* the service's update operations called by any other client
ProgressInputs == {25}
EventInputs == {"analyzing", "failed"}

ClientCalls == /\ ncalls < MaxCalls
               /\ ncalls' = ncalls + 1
               /\ UNCHANGED <<sims, nsims, cycle_log>>
               /\ DbUnchanged

ClientUpdateProgress ==
    \E id \in InvestigationIds, p \in ProgressInputs, st \in Statuses,
       ev \in EventInputs :
        UpdateInvestigationProgress(id, p, st, ev) /\ ClientCalls

ClientReportRootCause ==
    \E id \in InvestigationIds : ReportRootCause(id) /\ ClientCalls

ClientProposeFix ==
    \E id \in InvestigationIds : ProposeFix(id) /\ ClientCalls

ClientCreatePr ==
    \E id \in InvestigationIds : CreatePr(id) /\ ClientCalls

ClientComplete ==
    \E id \in InvestigationIds, success \in BOOLEAN :
        CompleteInvestigation(id, success) /\ ClientCalls

\* CoordinatorAgent.monitor_cycle for one queue with messages.  In automatic
\* mode step 3, NotifierAgent.send_alert, calls MacNotifier.notify, which the
\* notifier does not define: the AttributeError ends the cycle in its except
\* clause before InvestigationAgent.analyze and before the cooldown is set.
CoordinatorCycle ==
    \E q \in Queues, cnt \in PendingCounts, manual \in BOOLEAN :
        /\ cnt > 0
        /\ cnt >= INVESTIGATION_THRESHOLD
        /\ ~manual
        /\ ~cycle_log
        /\ cycle_log' = TRUE
        /\ UNCHANGED <<investigations, timeline, active_investigations,
                       agent_status, sims, nsims, ncalls>>
        /\ DbUnchanged

\* The dashboard process exits and is started again: the daemon threads are
\* gone, InvestigationService.__init__ starts with an empty
\* active_investigations, the tables are what the old process committed.
\* Nothing at start-up reads the investigations table.
Restart ==
    /\ \E s \in 1..MaxSims : sims[s].pc \notin {"unborn", "killed"}
    /\ sims' = [s \in 1..MaxSims |->
                   IF sims[s].pc = "unborn" THEN sims[s]
                   ELSE [sims[s] EXCEPT !.pc = "killed"]]
    /\ active_investigations' = {}
    /\ UNCHANGED <<investigations, timeline, agent_status, nsims, ncalls,
                   cycle_log>>
    /\ DbUnchanged

DbNext ==
    \/ DbTick
    \/ InvestigateDlq
    \/ Sims
    \/ ClientUpdateProgress
    \/ ClientReportRootCause
    \/ ClientProposeFix
    \/ ClientCreatePr
    \/ ClientComplete
    \/ CoordinatorCycle

SpecDb == Init /\ [][DbNext]_vars

\* the dashboard and its investigation threads, with the process restarted
RestartNext ==
    \/ DbTick
    \/ InvestigateDlq
    \/ Sims
    \/ Restart

SpecRestart == Init /\ [][RestartNext]_vars

\* ===================================================================
\* One caller of InvestigationService followed commit by commit, and a
\* reader calling get_investigation_details between the commits
\* ===================================================================
MaxWrites == 3

ReadUnchanged == UNCHANGED <<now, monVars, pollVars, sims, nsims, ncalls,
                             cycle_log, roundtrip>>

\* what each operation passes to update_investigation, and the event it adds
\* afterwards: update_investigation_progress as simulate_investigation calls
\* it, report_root_cause, propose_fix, create_pr, complete_investigation with
\* success True and False
Operations ==
    { [progress |-> 25,  status |-> "analyzing",       event_type |-> "analyzing"],
      [progress |-> 50,  status |-> "debugging",       event_type |-> "found_cause"],
      [progress |-> 75,  status |-> "reviewing",       event_type |-> "proposed_fix"],
      [progress |-> 90,  status |-> "awaiting_review", event_type |-> "pr_created"],
      [progress |-> 100, status |-> "completed",       event_type |-> "completed"],
      [progress |-> 100, status |-> "failed",          event_type |-> "completed"] }

\* start_investigation, first commit: the row of create_investigation
WriterCreate ==
    \E q \in Queues, cnt \in DashboardCounts :
        LET id == MakeInvestigationId(now, q) IN
        /\ writer.pc = "new"
        /\ id \notin InvestigationIds
        /\ Len(investigations) < MaxInv
        /\ investigations' = Append(investigations, NewInvestigation(id, q, cnt, now))
        /\ writer' = [pc |-> "event", inv |-> id, event_type |-> "launched",
                      n |-> 0]
        /\ UNCHANGED <<timeline, active_investigations, agent_status, snapshot>>
        /\ ReadUnchanged

\* first commit of a transition: self.db.update_investigation(...)
WriterUpdate ==
    \E op \in Operations :
        /\ writer.pc = "idle"
        /\ writer.n < MaxWrites
        /\ investigations' = UpdateInvestigation(investigations, writer.inv,
                                 [progress |-> op.progress, status |-> op.status],
                                 now)
        /\ writer' = [writer EXCEPT !.pc = "event",
                                    !.event_type = op.event_type, !.n = @ + 1]
        /\ UNCHANGED <<timeline, active_investigations, agent_status, snapshot>>
        /\ ReadUnchanged

\* second commit: self.db.add_timeline_event(...), in a session of its own;
\* start_investigation and complete_investigation update the agent's status
\* before it and the active_investigations map after it
WriterEvent ==
    /\ writer.pc = "event"
    /\ timeline' = AddTimelineEvent(timeline, investigations, writer.inv,
                                    writer.event_type, now)
    /\ Len(timeline') <= MaxEvents
    /\ CASE writer.event_type = "launched" ->
                /\ agent_status' = "running"
                /\ active_investigations' = active_investigations \cup {writer.inv}
                /\ writer' = [writer EXCEPT !.pc = "idle"]
         [] writer.event_type = "completed" ->
                /\ agent_status' = "idle"
                /\ active_investigations' = active_investigations \ {writer.inv}
                /\ writer' = [writer EXCEPT !.pc = "done"]
         [] OTHER ->
                /\ UNCHANGED <<agent_status, active_investigations>>
                /\ writer' = [writer EXCEPT !.pc = "idle"]
    /\ UNCHANGED <<investigations, snapshot>>
    /\ ReadUnchanged

\* DatabaseService.get_investigation_details: the row and its timeline, read
\* in one session
GetInvestigationDetails ==
    \E i \in DOMAIN investigations :
        LET es == EventsOf(timeline, i) IN
        /\ snapshot' = [status   |-> investigations[i].status,
                        progress |-> investigations[i].progress,
                        events   |-> [k \in 1..Len(es) |-> es[k].event_type]]
        /\ UNCHANGED <<investigations, timeline, active_investigations,
                       agent_status, writer>>
        /\ ReadUnchanged

ReadNext ==
    \/ WriterCreate
    \/ WriterUpdate
    \/ WriterEvent
    \/ GetInvestigationDetails

SpecRead == Init /\ [][ReadNext]_vars

\* ===================================================================
\* One investigation written with all the columns the service fills, then
\* reloaded through get_investigation_details
\* ===================================================================
None == "None"
ErrorMessages == {"Null reference in handleUserUpdate()"}
ProposedFixes == {"Add null check", "Raise the timeout"}
PrUrls == {"https://github.com/lpd/api/pull/1000"}

RoundTripUnchanged == UNCHANGED <<now, monVars, dbVars, pollVars, writer, snapshot>>

\* the row of create_investigation with the columns the later calls fill
FullInvestigation(id, q, cnt, t) ==
    [investigation_id |-> id, dlq_name |-> q, message_count |-> cnt,
     status |-> "initiated", progress |-> 0, started_at |-> t,
     completed_at |-> NoTime, duration_seconds |-> NoTime,
     error_message |-> None, root_cause |-> None, proposed_fix |-> None,
     pr_url |-> None]

\* DatabaseService._investigation_to_dict
InvestigationToDict(inv) ==
    [id |-> inv.investigation_id, dlq_name |-> inv.dlq_name,
     message_count |-> inv.message_count, status |-> inv.status,
     progress |-> inv.progress, error_message |-> inv.error_message,
     started_at |-> inv.started_at, completed_at |-> inv.completed_at,
     duration_seconds |-> inv.duration_seconds, pr_url |-> inv.pr_url]

\* DatabaseService._timeline_to_dict
TimelineToDict(e) == [event_type |-> e.event_type, timestamp |-> e.timestamp]

\* start_investigation: the row and its 'launched' event
RtStart ==
    \E q \in Queues, cnt \in DashboardCounts :
        LET id   == MakeInvestigationId(now, q)
            rows == <<FullInvestigation(id, q, cnt, now)>>
        IN  /\ roundtrip.rows = <<>>
            /\ roundtrip' = [roundtrip EXCEPT
                                !.rows = rows,
                                !.events = AddTimelineEvent(<<>>, rows, id,
                                                            "launched", now)]
            /\ RoundTripUnchanged

\* one of the service's writes to the row, with the event it appends
RtWrite(kwargs, event_type) ==
    LET id   == roundtrip.rows[1].investigation_id
        rows == UpdateInvestigation(roundtrip.rows, id, kwargs, now)
    IN  /\ roundtrip.rows # <<>>
        /\ roundtrip.details = NoDetails
        /\ Len(roundtrip.events) <= MaxWrites
        /\ roundtrip.rows[1].status # kwargs.status
        /\ roundtrip.rows[1].status \notin {"completed", "failed"}
        /\ roundtrip' = [roundtrip EXCEPT
                            !.rows = rows,
                            !.events = AddTimelineEvent(@, rows, id, event_type, now)]
        /\ RoundTripUnchanged

\* report_root_cause(id, error_type, error_message, stack_trace)
RtReportRootCause ==
    \E m \in ErrorMessages :
        RtWrite([error_message |-> m, progress |-> 50, status |-> "debugging"],
                "found_cause")

\* propose_fix(id, proposed_fix, code_diff, files_affected)
RtProposeFix ==
    \E f \in ProposedFixes :
        RtWrite([proposed_fix |-> f, progress |-> 75, status |-> "reviewing"],
                "proposed_fix")

\* create_pr(id, pr_number, pr_url, pr_title)
RtCreatePr ==
    \E u \in PrUrls :
        RtWrite([pr_url |-> u, progress |-> 90, status |-> "awaiting_review"],
                "pr_created")

\* complete_investigation(id, success)
RtComplete ==
    \E success \in BOOLEAN :
        RtWrite([status |-> IF success THEN "completed" ELSE "failed",
                 progress |-> 100], "completed")

\* get_investigation_details(id)
RtReload ==
    /\ roundtrip.rows # <<>>
    /\ roundtrip.details = NoDetails
    /\ roundtrip' = [roundtrip EXCEPT !.details =
           [id |-> roundtrip.rows[1].investigation_id,
            investigation |-> InvestigationToDict(roundtrip.rows[1]),
            timeline |-> [k \in 1..Len(roundtrip.events) |->
                            TimelineToDict(roundtrip.events[k])]]]
    /\ RoundTripUnchanged

RoundTripNext ==
    \/ DbTick
    \/ RtStart
    \/ RtReportRootCause
    \/ RtProposeFix
    \/ RtCreatePr
    \/ RtComplete
    \/ RtReload

SpecRoundTrip == Init /\ [][RoundTripNext]_vars

\* ===================================================================
\* The poll loops around check_dlq_messages: run_continuous_monitoring /
\* ProductionMonitor.run, which catch an exception per cycle, and
\* LimitedMonitor.run, which handles every alert a second time
\* ===================================================================
PollTickSteps == {301, 86400}
Drivers == {"continuous", "limited"}

\* the order in which discover_dlq_queues lists the queues
DiscoverOrder == <<"crit", "other">>

PollRest == UNCHANGED <<auto_investigations, investigation_processes, mainPc,
                        mainQ, dbVars, readVars>>

\* time passes, also while a pass is inside a blocking call
PollTick ==
    \E d \in PollTickSteps :
        /\ nticks < MaxTicks
        /\ nticks' = nticks + 1
        /\ now' = now + d
        /\ UNCHANGED <<monVars, dbVars, readVars, driver, pollPc, cycle, pending_alerts,
                       emitted>>

\* a cycle begins: dlq_queues = self.discover_dlq_queues(); alerts = [].
\* ProductionMonitor.run and LimitedMonitor.run sleep max(0, interval -
\* cycle_duration) before it, which is 0 after a slow cycle.
CycleStart ==
    \E d \in Drivers :
        /\ pollPc = "sleep"
        /\ driver' = IF driver = "unset" THEN d ELSE driver
        /\ pollPc' = "check"
        /\ cycle' = DiscoverOrder
        /\ pending_alerts' = <<>>
        /\ UNCHANGED <<now, monVars, dbVars, readVars, emitted, nticks>>

Emit(q) == emitted' = [emitted EXCEPT ![q] = [at |-> now, flip |-> ~@.flip]]

\* variant: the suppressed observation is recorded all the same
AlertSuppressed_Stamp(a) ==
    /\ ~ShouldNotify(a.queue)
    /\ last_alerts' = [last_alerts EXCEPT ![a.queue] = a.timestamp]
    /\ UNCHANGED <<emitted, thr, nthreads, last_start, decision>>

\* _handle_alert(a) returns without notifying
AlertSuppressed(a) ==
    /\ ~ShouldNotify(a.queue)
    /\ UNCHANGED <<last_alerts, emitted, thr, nthreads, last_start, decision>>

\* _handle_alert(a): send_critical_alert raises, line 637 is not reached
AlertRaised(a) ==
    /\ ShouldNotify(a.queue)
    /\ Emit(a.queue)
    /\ UNCHANGED <<last_alerts, thr, nthreads, last_start, decision>>

\* _handle_alert(a): the alert is sent (or the notifier returns False), recorded
\* with the timestamp of the observation, and the gate is asked
AlertRecorded(a) ==
    /\ ShouldNotify(a.queue)
    /\ Emit(a.queue)
    /\ last_alerts' = [last_alerts EXCEPT ![a.queue] = a.timestamp]
    /\ IF a.queue \notin auto_investigate_dlqs
       THEN /\ decision' = <<a.queue, "not_critical">>
            /\ UNCHANGED <<thr, nthreads, last_start>>
       ELSE /\ investigation_processes[a.queue] = NoProc
            /\ GateCooldown(a.queue)

\* the exception leaves check_dlq_messages: the cycle's except clause, or the
\* one around the whole loop of LimitedMonitor.run
AbortPass ==
    /\ pollPc' = IF driver = "limited" THEN "stopped" ELSE "sleep"
    /\ cycle' = <<>>
    /\ pending_alerts' = <<>>

\* check_dlq_messages: one iteration of its loop over the queues
CheckQueueWith(cnt, r) ==
        LET q == Head(cycle)
            a == [queue |-> q, timestamp |-> now]
        IN  /\ pollPc = "check"
            /\ cycle # <<>>
            /\ UNCHANGED <<now, driver, nticks>>
            /\ PollRest
            /\ IF cnt = 0
               THEN /\ cycle' = Tail(cycle)
                    /\ UNCHANGED <<pollPc, pending_alerts, last_alerts, emitted,
                                   thr, nthreads, last_start, decision>>
               ELSE IF ~ShouldNotify(q)
               THEN /\ AlertSuppressed(a)
                    /\ cycle' = Tail(cycle)
                    /\ pending_alerts' = Append(pending_alerts, a)
                    /\ UNCHANGED pollPc
               ELSE IF r = "raised"
               THEN AlertRaised(a) /\ AbortPass
               ELSE /\ AlertRecorded(a)
                    /\ cycle' = Tail(cycle)
                    /\ pending_alerts' = Append(pending_alerts, a)
                    /\ UNCHANGED pollPc

CheckQueue ==
    \E cnt \in PendingCounts, r \in NotifyResults : CheckQueueWith(cnt, r)

\* check_dlq_messages has returned its alerts
CycleEnd ==
    /\ pollPc = "check"
    /\ cycle = <<>>
    /\ IF driver = "limited"
       THEN pollPc' = "rehandle" /\ UNCHANGED pending_alerts
       ELSE pollPc' = "sleep" /\ pending_alerts' = <<>>
    /\ UNCHANGED <<now, monVars, dbVars, readVars, driver, cycle, emitted, nticks>>

\* LimitedMonitor.run: for alert in alerts: self.monitor._handle_alert(alert)
Rehandle ==
    \E r \in NotifyResults :
        LET a == Head(pending_alerts)
        IN  /\ pollPc = "rehandle"
            /\ pending_alerts # <<>>
            /\ UNCHANGED <<now, driver, nticks>>
            /\ PollRest
            /\ IF ~ShouldNotify(a.queue)
               THEN /\ AlertSuppressed(a)
                    /\ pending_alerts' = Tail(pending_alerts)
                    /\ UNCHANGED <<pollPc, cycle>>
               ELSE IF r = "raised"
               THEN AlertRaised(a) /\ AbortPass
               ELSE /\ AlertRecorded(a)
                    /\ pending_alerts' = Tail(pending_alerts)
                    /\ UNCHANGED <<pollPc, cycle>>

\* LimitedMonitor.run: the second pass is done, sleep until the next cycle
RehandleEnd ==
    /\ pollPc = "rehandle"
    /\ pending_alerts = <<>>
    /\ pollPc' = "sleep"
    /\ UNCHANGED <<now, monVars, dbVars, readVars, driver, cycle, pending_alerts, emitted,
                   nticks>>

PollNext ==
    \/ PollTick
    \/ CycleStart
    \/ CheckQueue
    \/ CycleEnd
    \/ Rehandle
    \/ RehandleEnd

SpecPoll == Init /\ [][PollNext]_vars

\* the same loops while every queue keeps a backlog: get_queue_message_count
\* returns a positive count at every poll
BacklogCheckQueue ==
    \E cnt \in PendingCounts \ {0}, r \in NotifyResults : CheckQueueWith(cnt, r)

BacklogNext ==
    \/ PollTick
    \/ CycleStart
    \/ BacklogCheckQueue
    \/ CycleEnd
    \/ Rehandle
    \/ RehandleEnd

\* the loop runs on (while True, sleep, next cycle); the clock and the
\* notifier's results are left free
FairSpecBacklog ==
    /\ Init /\ [][BacklogNext]_vars
    /\ WF_vars(CycleStart) /\ WF_vars(BacklogCheckQueue) /\ WF_vars(CycleEnd)
    /\ WF_vars(Rehandle) /\ WF_vars(RehandleEnd)

\* ===================================================================
\* Properties of the cooldown / concurrency gate and the supervisor
\* ===================================================================

\* a step of the gate that approves q: a new run_investigation thread starts
ApprovalStep(q) ==
    /\ nthreads' = nthreads + 1
    /\ thr'[nthreads'].queue = q

\* a step in which the gate logs a (different) decision for q
DecisionStep(q) == decision' # decision /\ decision'[1] = q

ThreadsOf(q) == {t \in Tids : thr[t].queue = q}

\* the investigation of thread t is past its inner finally: no process of it
\* is alive or still to be spawned, and it no longer holds the run-slot
Released(t) == thr[t].pc \in {"except", "fin_outer", "done"}

AgentAlive(q) == \E t \in ThreadsOf(q) : thr[t].proc = "alive"

\* C2: after an approval for a queue there is no state in which the queue has
\* neither a reserved run-slot (a registered process handle) nor a cooldown
\* timestamp updated by that approval.
C2_SlotOrCooldownAfterApproval ==
    \A t \in Tids :
        thr[t].pc # "unborn" =>
            \/ investigation_processes[thr[t].queue] # NoProc
            \/ /\ auto_investigations[thr[t].queue] # NoTime
               /\ auto_investigations[thr[t].queue] >= last_start[thr[t].queue]

\* C3: every approval for a queue happens when all earlier investigations of
\* the queue are terminal and have released the run-slot, and no two agent
\* processes of one queue are alive at the same time.
C3_ApprovalAfterRelease ==
    [][\A q \in Queues :
          /\ ApprovalStep(q) => \A t \in ThreadsOf(q) : Released(t)
          /\ Cardinality({t \in Tids : thr'[t].queue = q /\ thr'[t].proc = "alive"}) <= 1
      ]_vars

\* C4: while an agent process for a queue is alive, no approval for that queue
\* starts a second investigation, and every decision logged for the queue is
\* "already running".
C4_RunningRejectsApproval ==
    [][\A q \in Queues :
          AgentAlive(q) =>
              /\ ~ApprovalStep(q)
              /\ DecisionStep(q) => decision'[2] = "already_running"
      ]_vars

\* C5: a request made less than the cooldown period after the last approved
\* start of a queue is decided "cooldown" and starts no investigation.
C5_CooldownFromLastStart ==
    [][\A q \in Queues :
          (last_start[q] # NoTime /\ now - last_start[q] < investigation_cooldown) =>
              /\ ~ApprovalStep(q)
              /\ DecisionStep(q) => decision'[2] = "cooldown"
      ]_vars

\* C6: the cooldown timestamp of a queue changes only in the step that
\* approves an investigation for it, never when an investigation finishes.
C6_CooldownSetOnlyAtApproval ==
    [][\A q \in Queues :
          auto_investigations'[q] # auto_investigations[q] => ApprovalStep(q)
      ]_vars

\* C7: a process handle registered for a queue is eventually removed, on every
\* exit path of the supervising thread.
C7_HandleEventuallyRemoved ==
    \A q \in Queues :
        (investigation_processes[q] # NoProc) ~> (investigation_processes[q] = NoProc)

\* C7 witness: a timed-out investigation is past its inner finally and its
\* queue has no handle
C7_Witness ==
    \E t \in Tids :
        /\ Released(t) /\ thr[t].proc = "killed"
        /\ investigation_processes[thr[t].queue] = NoProc

IsOutcome(x) == x \in {"completed", "failed", "timeout"}

\* C8: when communicate() ends, the outcome reported is completed for exit
\* code 0 within the deadline, failed for another exit code within the
\* deadline, and timeout with a killed process once the deadline has passed;
\* a launched process never has more than one of the three outcomes reported.
C8_OutcomeByExitCodeAndDeadline ==
    [][\A t \in Tids :
          /\ (thr[t].pc = "wait" /\ thr'[t].pc # "wait") =>
                IF now - thr[t].spawnedAt < claude_command_timeout
                THEN /\ thr'[t].proc = "exited"
                     /\ thr'[t].reported =
                           <<IF thr'[t].returncode = 0 THEN "completed" ELSE "failed">>
                ELSE /\ thr'[t].proc = "killed"
                     /\ thr'[t].reported = <<"timeout">>
          /\ thr'[t].proc \in {"exited", "killed"} =>
                Len(SelectSeq(thr'[t].reported, IsOutcome)) = 1
          /\ thr'[t].proc \in {"none", "alive"} =>
                Len(SelectSeq(thr'[t].reported, IsOutcome)) = 0
      ]_vars

\* C8 witness: one investigation timed out and was killed, another one exited
\* with a non-zero code, and both have been classified
C8_Witness ==
    \E t1, t2 \in Tids :
        /\ thr[t1].proc = "killed" /\ thr[t1].reported = <<"timeout">>
        /\ thr[t2].proc = "exited" /\ thr[t2].returncode = 1
        /\ thr[t2].reported = <<"failed">>

\* C14: the step that approves an investigation only starts its thread: the
\* poll loop is idle again in the same step, no time has passed, the agent
\* process is not yet spawned and no other thread has been waited for.
C14_ApprovalDoesNotWait ==
    [][\A q \in Queues :
          ApprovalStep(q) =>
              /\ mainPc' = "idle"
              /\ now' = now
              /\ thr'[nthreads'].pc = "start"
              /\ thr'[nthreads'].proc = "none"
              /\ \A t \in Tids : t # nthreads' => thr'[t] = thr[t]
      ]_vars

\* C14 witness: the poll loop has handled an alert after the agent process of
\* a still running investigation was spawned
C14_Witness ==
    \E t \in Tids, q \in Queues :
        /\ thr[t].pc = "wait" /\ thr[t].proc = "alive"
        /\ mainPc = "idle"
        /\ last_alerts[q] > thr[t].spawnedAt

\* C15: a notifier that fails or raises changes nothing: a thread never skips
\* the spawn of its agent process because a notification raised, every
\* decision of the gate belongs to an alert recorded in last_alerts, and a
\* thread that ends after a raising notification still records the cooldown.
C15_NotifierFailureHarmless ==
    [][/\ \A q \in Queues :
             (mainPc = "idle" /\ DecisionStep(q)) => last_alerts'[q] = now
       /\ \A t \in Tids :
             /\ (thr[t].pc = "start" /\ thr'[t].pc = "except") =>
                    ~thr'[t].notifyExc
             /\ (thr[t].notifyExc /\ thr'[t].pc = "done") =>
                    auto_investigations'[thr[t].queue] = now
      ]_vars

\* ===================================================================
\* Properties of the persisted investigations
\* ===================================================================
NonTerminalRows(q) ==
    {i \in DOMAIN investigations :
        /\ investigations[i].dlq_name = q
        /\ investigations[i].status \notin TerminalStatuses}

\* C1: for every queue the persisted investigation set holds at most one
\* Investigation whose status is not completed, failed or timeout.
C1_AtMostOneNonTerminalPerQueue ==
    \A q \in Queues : Cardinality(NonTerminalRows(q)) <= 1

\* the state graph of an Investigation
StatusEdges ==
    {<<"initiated", "analyzing">>, <<"analyzing", "debugging">>,
     <<"debugging", "reviewing">>, <<"reviewing", "awaiting_review">>,
     <<"awaiting_review", "completed">>}
    \cup ((Statuses \ TerminalStatuses) \X {"failed", "timeout"})

\* C9: every Investigation starts in initiated, and every change of its
\* status follows an edge of the state graph.
C9_StatusFollowsGraph ==
    [][\A i \in DOMAIN investigations' :
          IF i \in DOMAIN investigations
          THEN investigations'[i].status # investigations[i].status =>
                   <<investigations[i].status, investigations'[i].status>> \in StatusEdges
          ELSE investigations'[i].status = "initiated"
      ]_vars

\* C10: an Investigation whose status is completed, failed or timeout is not
\* changed by any later request: its status and all its other fields stay.
C10_TerminalUnchanged ==
    [][\A i \in DOMAIN investigations :
          investigations[i].status \in TerminalStatuses =>
              investigations'[i] = investigations[i]
      ]_vars

\* C11: every step that takes an Investigation into a terminal status stamps
\* completed_at with the current time and sets duration_seconds to
\* completed_at minus started_at.
C11_TerminalStampsCompletion ==
    [][\A i \in DOMAIN investigations :
          (/\ investigations'[i].status \in TerminalStatuses
           /\ investigations[i].status \notin TerminalStatuses) =>
              /\ investigations'[i].completed_at = now
              /\ investigations'[i].duration_seconds =
                     now - investigations'[i].started_at
      ]_vars

\* C12: every persisted Investigation has a non-empty timeline whose first
\* event has type detected.
C12_DetectedEventAtCreation ==
    \A i \in DOMAIN investigations :
        /\ EventsOf(timeline, i) # <<>>
        /\ EventsOf(timeline, i)[1].event_type = "detected"

\* C13: the last timeline event of every Investigation in a terminal status is
\* a terminal event (completed, failed or timeout).
C13_LastEventTerminal ==
    \A i \in DOMAIN investigations :
        investigations[i].status \in TerminalStatuses =>
            /\ EventsOf(timeline, i) # <<>>
            /\ EventsOf(timeline, i)[Len(EventsOf(timeline, i))].event_type
                   \in TerminalStatuses

\* ===================================================================
\* Properties of the poll loop and the re-alert window
\* ===================================================================

\* a step that calls send_critical_alert for q
Emission(q) == emitted'[q] # emitted[q]

\* a step in which _handle_alert runs for an alert of q
Handling(q) ==
    \/ /\ pollPc = "check" /\ cycle # <<>> /\ Head(cycle) = q
       /\ \/ Len(pending_alerts') = Len(pending_alerts) + 1
          \/ Emission(q)
    \/ /\ pollPc = "rehandle" /\ pending_alerts # <<>>
       /\ Head(pending_alerts).queue = q
       /\ pollPc' # "rehandle" \/ pending_alerts' = Tail(pending_alerts)

\* C16: a pass over the queues ends only when every queue after the one being
\* processed has been checked, and an error leaves the cycle-catching loops
\* asleep until the next cycle, not stopped.
C16_ErrorDoesNotSkipQueues ==
    [][(pollPc = "check" /\ pollPc' # "check") =>
           /\ Len(cycle) <= 1
           /\ driver = "continuous" => pollPc' = "sleep"
      ]_vars

\* C17: an alert for a queue is emitted only if no alert for that queue was
\* emitted within the preceding re-alert window.
C17_OneAlertPerWindow ==
    [][\A q \in Queues :
          Emission(q) =>
              \/ emitted[q].at = NoTime
              \/ now - emitted[q].at > ReAlertSeconds
      ]_vars

\* C18: whenever the handler runs for a queue whose last alert was emitted
\* longer ago than the re-alert window (or that has had no alert), it emits
\* an alert.
C18_AlertOutsideWindow ==
    [][\A q \in Queues :
          (/\ Handling(q)
           /\ \/ emitted[q].at = NoTime
              \/ now - emitted[q].at > ReAlertSeconds) => Emission(q)
      ]_vars

\* ===================================================================
\* Properties of restart and of concurrent readers
\* ===================================================================

\* a step in which the process is started again
RestartStep == \E s \in 1..MaxSims : sims'[s].pc = "killed" /\ sims[s].pc # "killed"

\* C19: when the process has been started again, every Investigation the old
\* process left non-terminal (its thread no longer exists) is failed, so none
\* stays non-terminal.
C19_RestartReconciles ==
    [][RestartStep =>
           \A i \in DOMAIN investigations' :
               investigations'[i].status \in TerminalStatuses
      ]_vars

\* the status each transition writes, with the event that records it
TransitionPairs ==
    {<<"initiated", "launched">>} \cup
    {<<op.status, op.event_type>> : op \in Operations}

\* C20: a transition's status and its TimelineEvent are one atomic unit: what
\* a reader gets from get_investigation_details while the service is writing
\* always has, as its last event, the event of the status it shows.
C20_ReaderSeesWholeTransition ==
    snapshot # NoSnapshot =>
        /\ snapshot.events # <<>>
        /\ <<snapshot.status, snapshot.events[Len(snapshot.events)]>>
               \in TransitionPairs

\* ===================================================================
\* Properties of the stored timeline, of ids and of the service's queries
\* ===================================================================

\* C21: the events of one investigation carry strictly increasing timestamps
\* in the order they were appended, so that ORDER BY timestamp in
\* get_investigation_details can only return them in that order; this also
\* when two are appended within one tick of the column's clock (func.now(),
\* whole seconds).
C21_TimelineStrictlyOrdered ==
    \A i \in DOMAIN investigations :
        LET es == EventsOf(timeline, i) IN
        \A k \in 1..(Len(es) - 1) : es[k].timestamp < es[k + 1].timestamp

\* the columns the spec calls terminal fields, as columns of the row
TerminalFields == {"status", "error_message", "proposed_fix", "pr_url",
                   "completed_at", "duration_seconds"}

\* C22: what get_investigation_details returns for an investigation holds the
\* timeline that was written, in the same order, and every terminal field
\* with the value that was written.
C22_ReloadEqualsWritten ==
    roundtrip.details # NoDetails =>
        LET row == roundtrip.rows[1]
            d   == roundtrip.details
        IN  /\ d.timeline = [k \in 1..Len(roundtrip.events) |->
                               TimelineToDict(roundtrip.events[k])]
            /\ \A f \in TerminalFields :
                   /\ f \in DOMAIN d.investigation
                   /\ d.investigation[f] = row[f]

\* C23: investigation ids are unique: the id a creation computes is never the
\* id of an investigation created before, whatever the queue and the second.
C23_InvestigationIdUnique ==
    [][\A s \in 1..MaxSims :
          (sims[s].pc = "start" /\ sims'[s].pc \in {"analyzing", "dead"}) =>
              MakeInvestigationId(now, sims[s].queue) \notin InvestigationIds
      ]_vars

\* C24: last_alerts of a queue changes only in a step in which
\* send_critical_alert is called for that queue: an observation with no
\* pending messages, or one inside the re-alert window, leaves last_alerts of
\* every queue as it was.
C24_LastAlertOnlyOnEmission ==
    [][\A q \in Queues :
          last_alerts'[q] # last_alerts[q] => (Handling(q) /\ Emission(q))
      ]_vars

\* an observation of an alerted queue was handled and suppressed: it is in the
\* alerts list of the pass, later than the queue's last_alerts
C24_Witness ==
    \E k \in DOMAIN pending_alerts :
        /\ last_alerts[pending_alerts[k].queue] # NoTime
        /\ pending_alerts[k].timestamp > last_alerts[pending_alerts[k].queue]

\* C25: only queues in auto_investigate_dlqs are ever investigated: every
\* run_investigation thread, process handle, start and recorded attempt
\* belongs to a listed queue, however many messages another queue holds.
C25_OnlyListedQueuesInvestigated ==
    /\ \A t \in Tids :
           thr[t].pc # "unborn" => thr[t].queue \in auto_investigate_dlqs
    /\ \A q \in Queues \ auto_investigate_dlqs :
           /\ investigation_processes[q] = NoProc
           /\ auto_investigations[q] = NoTime
           /\ last_start[q] = NoTime

\* an alert for a queue outside the list was reported and the gate refused it,
\* while a listed queue has been investigated
C25_Witness ==
    /\ \E q \in Queues \ auto_investigate_dlqs :
           last_alerts[q] # NoTime /\ decision = <<q, "not_critical">>
    /\ nthreads > 0

\* C26: the poll loop and the investigation thread both clean up a finished
\* handle; whichever comes second finds its lookup and its del working on an
\* entry that is still there, so neither raises KeyError.
C26_CleanupNeverRaises ==
    [][/\ \A t \in Tids :
              (thr[t].pc = "fin_del" /\ thr'[t].pc # "fin_del") =>
                  investigation_processes[thr[t].queue] # NoProc
       /\ (mainPc \in {"poll", "del"} /\ mainPc' # mainPc) =>
              investigation_processes[mainQ] # NoProc
      ]_vars

\* C27: under run_continuous_monitoring, a listed queue that has a backlog at
\* every poll, no investigation running and no cooldown pending gets an
\* investigation started eventually.
C27_BacklogEventuallyInvestigated ==
    \A q \in auto_investigate_dlqs :
        (/\ driver = "continuous"
         /\ nthreads = 0
         /\ investigation_processes[q] = NoProc
         /\ ~InCooldown(q))
        ~> (\E t \in Tids : thr[t].queue = q /\ thr[t].pc # "unborn")

\* DatabaseService.get_active_investigations: the rows whose status is NOT IN
\* ('completed', 'failed') (their order, by started_at, is left out)
GetActiveInvestigations ==
    {i \in DOMAIN investigations :
        investigations[i].status \notin {"completed", "failed"}}

\* C28: get_active_investigations returns exactly the investigations whose
\* status is not terminal (not completed, failed or timeout).
C28_ActiveIsNonTerminal ==
    GetActiveInvestigations =
        {i \in DOMAIN investigations :
            investigations[i].status \notin TerminalStatuses}

\* a step in which complete_investigation finishes the active investigation id
CompletionStep(id) ==
    id \in active_investigations /\ id \notin active_investigations'

\* C29: when complete_investigation finishes an investigation, the event it
\* appends has the terminal status it wrote as its event_type: completed for
\* success, failed otherwise.
C29_FinalEventMatchesStatus ==
    [][\A id \in InvestigationIds :
          CompletionStep(id) =>
              LET i  == RowOf(investigations', id)
                  es == EventsOf(timeline', i)
              IN  /\ es # <<>>
                  /\ es[Len(es)].event_type = investigations'[i].status
      ]_vars

\* C30: the agent is running as long as an investigation started through the
\* service is active for it.
C30_AgentRunningWhileActive ==
    active_investigations # {} => agent_status = "running"

====
